---- MODULE Spec2Model ----
(***************************************************************************)
(* A model of tex_project.py: the MinimalLatexEditor window (buffer,       *)
(* current file, the Open / Save / Open CMD / Compile handlers), the       *)
(* filesystem and child processes it touches, and LatexHighlighter.        *)
(*                                                                         *)
(* Text is a sequence of characters, each character a string.  Offsets     *)
(* into a line are 0-based, as in Python's re module: the character at     *)
(* offset k of line is line[k+1].                                          *)
(***************************************************************************)
EXTENDS Integers, Sequences, FiniteSets, Bags, TLC

VARIABLES
    platform,      \* sys.platform of the host, fixed for the run
    text,          \* self.editor.toPlainText()
    fmt,           \* per block, the format of each UTF-16 unit of the block
    current_file,  \* self.current_file
    fs,            \* the filesystem: path -> [exists, data]
    procs,         \* the child processes that are alive, a bag
    pc,            \* where the interface thread is: starting, idle, compiling
    msgs,          \* the message boxes shown by the most recent step
    last,          \* history: the most recent step (handler or child exit)
    io_ok          \* history: some read_text or write_text has succeeded

vars == <<platform, text, fmt, current_file, fs, procs, pc, msgs, last, io_ok>>

----------------------------------------------------------------------------
(* Bounds *)

MaxLen == 1       \* characters in the buffer and in a file present at start
MaxProcs == 2     \* child processes alive at once
MaxFrags == 4     \* fragments making up a line given to the highlighter

----------------------------------------------------------------------------
(* Characters *)

LF == "LF"                \* U+000A
CR == "CR"                \* U+000D
BAD == "BAD"              \* a byte sequence that is not valid UTF-8
ASTRAL == "U+1D4B3"       \* a character outside the BMP: two UTF-16 units
BSL == "\\"

None == "None"

Letters == {"b", "d", "e", "g", "i", "n", "x"}   \* the [a-zA-Z] of the alphabet

TypedChars == {"%", LF}                 \* what the keyboard inserts

SeqsUpTo(S, n) == UNION {[1..k -> S] : k \in 0..n}

----------------------------------------------------------------------------
(* Newline handling of Python text files and of QTextDocument *)

\* Universal newlines on reading (newline=None): CR LF and a lone CR become
\* LF.  QTextCursor.insertText breaks blocks at the same three.
RECURSIVE UniversalNewlines(_)
UniversalNewlines(s) ==
    IF s = <<>> THEN <<>>
    ELSE IF Head(s) = CR
         THEN IF Len(s) > 1 /\ s[2] = LF
              THEN <<LF>> \o UniversalNewlines(SubSeq(s, 3, Len(s)))
              ELSE <<LF>> \o UniversalNewlines(Tail(s))
         ELSE <<Head(s)>> \o UniversalNewlines(Tail(s))

\* os.linesep of the platform.
LineSep(plat) == IF plat = "win32" THEN <<CR, LF>> ELSE <<LF>>

\* Appends a line feed to data that does not end with one.
RECURSIVE EncodeFinalNewline(_, _)
EncodeFinalNewline(s, plat) ==
    IF s = <<>> THEN LineSep(plat)
    ELSE IF Len(s) = 1
         THEN IF s[1] = LF THEN LineSep(plat) ELSE s \o LineSep(plat)
         ELSE (IF Head(s) = LF THEN LineSep(plat) ELSE <<Head(s)>>)
                  \o EncodeFinalNewline(Tail(s), plat)

\* What write_text(data, encoding="utf-8") puts in the file: the characters
\* of data with each LF written as os.linesep.
RECURSIVE Encode(_, _)
Encode(s, plat) ==
    IF s = <<>> THEN <<>>
    ELSE (IF Head(s) = LF THEN LineSep(plat) ELSE <<Head(s)>>)
             \o Encode(Tail(s), plat)

IsUtf8(data) == \A i \in 1..Len(data) : data[i] # BAD

\* What read_text(encoding="utf-8") returns for a file that decodes.
Decode(data) == UniversalNewlines(data)

\* QTextEdit.setPlainText(s) followed by toPlainText().
SetPlainText(s) == UniversalNewlines(s)

----------------------------------------------------------------------------
(* LatexHighlighter *)

NoStyle == "none"

\* self.highlighting_rules, in the order __init__ appends them.
highlighting_rules ==
    << [pattern |-> "command",     format |-> "command_format"],
       [pattern |-> "brace",       format |-> "brace_format"],
       [pattern |-> "math",        format |-> "math_format"],
       [pattern |-> "comment",     format |-> "comment_format"],
       [pattern |-> "environment", format |-> "env_format"] >>

\* The offset just past the longest run of letters that starts at offset j.
RECURSIVE LettersEnd(_, _)
LettersEnd(line, j) ==
    IF j < Len(line) /\ line[j + 1] \in Letters
    THEN LettersEnd(line, j + 1)
    ELSE j

\* The least offset j >= from whose character is in set, or -1.
RECURSIVE FirstAt(_, _, _)
FirstAt(line, set, from) ==
    IF from >= Len(line) THEN -1
    ELSE IF line[from + 1] \in set THEN from
    ELSE FirstAt(line, set, from + 1)

\* Whether word stands in line at offset i.
HasWord(line, i, word) ==
    /\ i + Len(word) <= Len(line)
    /\ \A k \in 1..Len(word) : line[i + k] = word[k]

\* r'\\[a-zA-Z]+' at offset i: the end offset of the match, or -1.
MatchCommand(line, i) ==
    IF line[i + 1] = BSL /\ LettersEnd(line, i + 1) > i + 1
    THEN LettersEnd(line, i + 1)
    ELSE -1

\* r'[{}]'
MatchBrace(line, i) ==
    IF line[i + 1] \in {"{", "}"} THEN i + 1 ELSE -1

\* r'\$[^$]*\$'
MatchMath(line, i) ==
    IF line[i + 1] = "$" /\ FirstAt(line, {"$"}, i + 1) # -1
    THEN FirstAt(line, {"$"}, i + 1) + 1
    ELSE -1

\* r'%[^\n]*'
MatchComment(line, i) ==
    IF line[i + 1] = "%"
    THEN IF FirstAt(line, {LF}, i + 1) # -1
         THEN FirstAt(line, {LF}, i + 1)
         ELSE Len(line)
    ELSE -1

\* r'\\(begin|end)\{[^}]+\}'
MatchEnvironment(line, i) ==
    LET k == IF HasWord(line, i + 1, <<"b", "e", "g", "i", "n">>) THEN i + 6
             ELSE IF HasWord(line, i + 1, <<"e", "n", "d">>) THEN i + 4
             ELSE -1
        close == FirstAt(line, {"}"}, k + 1)
    IN  IF /\ line[i + 1] = BSL
           /\ k # -1
           /\ k < Len(line)
           /\ line[k + 1] = "{"
           /\ close > k + 1
        THEN close + 1
        ELSE -1

\* pattern.match(line, i): the end offset of the match at offset i, or -1.
MatchEnd(pattern, line, i) ==
    CASE pattern = "command"     -> MatchCommand(line, i)
      [] pattern = "brace"       -> MatchBrace(line, i)
      [] pattern = "math"        -> MatchMath(line, i)
      [] pattern = "comment"     -> MatchComment(line, i)
      [] pattern = "environment" -> MatchEnvironment(line, i)

\* pattern.finditer(line) from offset pos on: the <<start, end>> of the
\* leftmost matches, each search resuming where the previous match ended.
RECURSIVE finditer(_, _, _)
finditer(pattern, line, pos) ==
    IF pos >= Len(line) THEN <<>>
    ELSE IF MatchEnd(pattern, line, pos) = -1
         THEN finditer(pattern, line, pos + 1)
         ELSE << <<pos, MatchEnd(pattern, line, pos)>> >>
                  \o finditer(pattern, line, MatchEnd(pattern, line, pos))

\* The UTF-16 units a character takes in a QString.
Width(c) == IF c = ASTRAL THEN 2 ELSE 1

\* The UTF-16 length of the first k characters of line.
RECURSIVE U16Len(_, _)
U16Len(line, k) ==
    IF k = 0 THEN 0 ELSE U16Len(line, k - 1) + Width(line[k])

\* QSyntaxHighlighter.setFormat(start, count, format): start and count are
\* offsets into the block's QString, that is in UTF-16 units; the range is
\* cut at the end of the block; the format replaces the one set before.
setFormat(f, start, count, format) ==
    [u \in DOMAIN f |->
        IF u - 1 >= start /\ u - 1 < start + count THEN format ELSE f[u]]

\* The inner loop of highlightBlock: one setFormat per match of a rule.
RECURSIVE ApplyMatches(_, _, _)
ApplyMatches(f, ms, format) ==
    IF ms = <<>> THEN f
    ELSE ApplyMatches(setFormat(f, ms[1][1], ms[1][2] - ms[1][1], format),
                      Tail(ms), format)

\* The outer loop of highlightBlock, from rule r on.
RECURSIVE ApplyRules(_, _, _)
ApplyRules(f, line, r) ==
    IF r > Len(highlighting_rules) THEN f
    ELSE ApplyRules(ApplyMatches(f,
                                 finditer(highlighting_rules[r].pattern, line, 0),
                                 highlighting_rules[r].format),
                    line, r + 1)

\* The block before any highlighting: no unit has a format.
Unformatted(line) == [u \in 1..U16Len(line, Len(line)) |-> NoStyle]

highlightBlock(line) == ApplyRules(Unformatted(line), line, 1)

\* The blocks of a document: its text split at the line feeds.
RECURSIVE Blocks(_)
Blocks(s) ==
    IF FirstAt(s, {LF}, 0) = -1 THEN <<s>>
    ELSE <<SubSeq(s, 1, FirstAt(s, {LF}, 0))>>
             \o Blocks(SubSeq(s, FirstAt(s, {LF}, 0) + 2, Len(s)))

\* The formats of a document whose every block has been highlighted.
HighlightDoc(s) == [b \in 1..Len(Blocks(s)) |-> highlightBlock(Blocks(s)[b])]

UnformattedDoc(s) == [b \in 1..Len(Blocks(s)) |-> Unformatted(Blocks(s)[b])]

----------------------------------------------------------------------------
(* The filesystem, the dialogs and the child processes *)

Paths == {"d1/a.tex", "d2/b.tex"}

\* Path.parent
Parent(p) == IF p = "d1/a.tex" THEN "d1" ELSE "d2"

Platforms == {"win32", "darwin", "linux"}

NoFile == [exists |-> FALSE, data |-> <<>>]
File(d) == [exists |-> TRUE, data |-> d]

\* The files a path may hold when the program starts: none, one that is not
\* UTF-8, one with a carriage return in it.
StartFiles == {NoFile, File(<<BAD>>), File(<<CR>>)}

\* The text the editor starts with.  The template itself is 30 lines of
\* LaTeX; it stands here abridged to one character, a buffer within MaxLen.
DEFAULT_LATEX_TEMPLATE == <<"%">>

Information(title) == [kind |-> "information", title |-> title]
Critical(title) == [kind |-> "critical", title |-> title]

\* A record of the step being taken: the handler or event, its outcome, the
\* path it was about, whether it showed a file dialog, the exit status it
\* saw, and whether it is an open of the path the step before saved.
Ev(op, outcome, path, prompted, exit) ==
    [op |-> op, outcome |-> outcome, path |-> path, prompted |-> prompted,
     exit |-> exit,
     follows_save |-> /\ op = "open"
                      /\ last.op = "save"
                      /\ last.outcome = "ok"
                      /\ last.path = path]

\* The outcomes of path.read_text(encoding="utf-8"): it raises for a missing
\* file and for one that is not UTF-8, and may raise for any other (the
\* permissions, the device).
ReadText(p) ==
    IF ~fs[p].exists \/ ~IsUtf8(fs[p].data)
    THEN {[ok |-> FALSE, text |-> <<>>]}
    ELSE {[ok |-> TRUE, text |-> Decode(fs[p].data)],
          [ok |-> FALSE, text |-> <<>>]}

\* The outcomes of path.write_text(data, encoding="utf-8"): the file holds
\* the encoded data; or opening it raised and it is what it was; or the
\* write raised after the open had truncated it (data this short is
\* written in one piece), and it is empty.
WriteText(p, data) ==
    {[ok |-> TRUE, file |-> File(Encode(data, platform))],
     [ok |-> FALSE, file |-> fs[p]],
     [ok |-> FALSE, file |-> File(<<>>)]}

InsertAt(s, i, t) == SubSeq(s, 1, i) \o t \o SubSeq(s, i + 1, Len(s))
RemoveAt(s, i) == SubSeq(s, 1, i - 1) \o SubSeq(s, i + 1, Len(s))

\* What a clipboard may carry: a plain text, an HTML rendering, or both.
MimeSources ==
    {[hasText |-> ht, text |-> t, hasHtml |-> hh, html |-> h] :
        ht \in BOOLEAN, hh \in BOOLEAN,
        t \in {<<CR, LF>>}, h \in {<<"%">>}}

----------------------------------------------------------------------------
(* The program *)

\* MinimalLatexEditor.__init__, on some platform and some filesystem.  The
\* highlighter is attached after setPlainText and highlights the document
\* when the event loop first runs: the blocks start unformatted.
Init ==
    /\ platform \in Platforms
    /\ text = DEFAULT_LATEX_TEMPLATE
    /\ fmt = UnformattedDoc(DEFAULT_LATEX_TEMPLATE)
    /\ current_file = None
    /\ fs \in [Paths -> StartFiles]
    /\ procs = EmptyBag
    /\ pc = "starting"
    /\ msgs = <<>>
    /\ last = [op |-> "init", outcome |-> "ok", path |-> None,
               prompted |-> FALSE, exit |-> "none", follows_save |-> FALSE]
    /\ io_ok = FALSE

\* The highlighter's first pass over the document, as the event loop starts.
Rehighlight ==
    /\ pc = "starting"
    /\ pc' = "idle"
    /\ fmt' = HighlightDoc(text)
    /\ msgs' = <<>>
    /\ last' = Ev("highlight", "ok", None, FALSE, "none")
    /\ UNCHANGED <<platform, text, current_file, fs, procs, io_ok>>

\* A keystroke: a character typed at the cursor, or the one before the
\* cursor deleted.  The changed blocks are highlighted again.
Keystroke ==
    /\ pc = "idle"
    /\ \/ \E i \in 0..Len(text), c \in TypedChars :
            /\ Len(text) < MaxLen
            /\ text' = InsertAt(text, i, <<c>>)
       \/ \E i \in 1..Len(text) : text' = RemoveAt(text, i)
    /\ fmt' = HighlightDoc(text')
    /\ msgs' = <<>>
    /\ last' = Ev("edit", "ok", None, FALSE, "none")
    /\ UNCHANGED <<platform, current_file, fs, procs, pc, io_ok>>

\* PlainTextEdit.insertFromMimeData: the plain text of the clipboard when it
\* has one, the toolkit's own paste (the HTML, when there is some) otherwise.
InsertFromMimeData ==
    /\ pc = "idle"
    /\ \E source \in MimeSources, i \in 0..Len(text) :
          LET pasted == IF source.hasText THEN SetPlainText(source.text)
                        ELSE IF source.hasHtml THEN source.html
                        ELSE <<>>
          IN  /\ Len(text) + Len(pasted) <= MaxLen
              /\ text' = InsertAt(text, i, pasted)
    /\ fmt' = HighlightDoc(text')
    /\ msgs' = <<>>
    /\ last' = Ev("paste", "ok", None, FALSE, "none")
    /\ UNCHANGED <<platform, current_file, fs, procs, pc, io_ok>>

\* open_file with the path assigned before the file is read.
OpenFileAssignsFirst ==
    /\ pc = "idle"
    /\ \E file_path \in Paths \cup {None} :
          IF file_path = None
          THEN /\ msgs' = <<>>
               /\ last' = Ev("open", "cancel", None, TRUE, "none")
               /\ UNCHANGED <<text, fmt, current_file, io_ok>>
          ELSE \E r \in ReadText(file_path) :
                  /\ current_file' = file_path
                  /\ IF r.ok
                     THEN /\ text' = SetPlainText(r.text)
                          /\ fmt' = HighlightDoc(text')
                          /\ io_ok' = TRUE
                          /\ msgs' = <<>>
                          /\ last' = Ev("open", "ok", file_path, TRUE, "none")
                     ELSE /\ msgs' = <<Critical("Error")>>
                          /\ last' = Ev("open", "fail", file_path, TRUE, "none")
                          /\ UNCHANGED <<text, fmt, io_ok>>
    /\ UNCHANGED <<platform, fs, procs, pc>>

\* open_file that empties the editor when the file cannot be read.
OpenFileClearsOnFailure ==
    /\ pc = "idle"
    /\ \E file_path \in Paths \cup {None} :
          IF file_path = None
          THEN /\ msgs' = <<>>
               /\ last' = Ev("open", "cancel", None, TRUE, "none")
               /\ UNCHANGED <<text, fmt, current_file, io_ok>>
          ELSE \E r \in ReadText(file_path) :
                  IF r.ok
                  THEN /\ text' = SetPlainText(r.text)
                       /\ fmt' = HighlightDoc(text')
                       /\ current_file' = file_path
                       /\ io_ok' = TRUE
                       /\ msgs' = <<>>
                       /\ last' = Ev("open", "ok", file_path, TRUE, "none")
                  ELSE /\ text' = <<>>
                       /\ fmt' = HighlightDoc(text')
                       /\ msgs' = <<Critical("Error")>>
                       /\ last' = Ev("open", "fail", file_path, TRUE, "none")
                       /\ UNCHANGED <<current_file, io_ok>>
    /\ UNCHANGED <<platform, fs, procs, pc>>

\* open_file: the dialog gives a path or nothing (cancelled); the file is
\* read, put in the editor and remembered, or the error is shown.
OpenFile ==
    /\ pc = "idle"
    /\ \E file_path \in Paths \cup {None} :
          IF file_path = None
          THEN /\ msgs' = <<>>
               /\ last' = Ev("open", "cancel", None, TRUE, "none")
               /\ UNCHANGED <<text, fmt, current_file, io_ok>>
          ELSE \E r \in ReadText(file_path) :
                  IF r.ok
                  THEN /\ text' = SetPlainText(r.text)
                       /\ fmt' = HighlightDoc(text')
                       /\ current_file' = file_path
                       /\ io_ok' = TRUE
                       /\ msgs' = <<>>
                       /\ last' = Ev("open", "ok", file_path, TRUE, "none")
                  ELSE /\ msgs' = <<Critical("Error")>>
                       /\ last' = Ev("open", "fail", file_path, TRUE, "none")
                       /\ UNCHANGED <<text, fmt, current_file, io_ok>>
    /\ UNCHANGED <<platform, fs, procs, pc>>

\* save_file that reports a cancelled dialog as an error.
SaveFileCancelReportsError ==
    /\ pc = "idle"
    /\ \E file_path \in (IF current_file = None THEN Paths \cup {None}
                                                ELSE {None}) :
          IF current_file = None /\ file_path = None
          THEN /\ msgs' = <<Critical("Error")>>
               /\ last' = Ev("save", "cancel", None, TRUE, "none")
               /\ UNCHANGED <<current_file, fs, io_ok>>
          ELSE /\ current_file' = (IF current_file = None THEN file_path
                                                          ELSE current_file)
               /\ \E w \in WriteText(current_file', text) :
                     /\ fs' = [fs EXCEPT ![current_file'] = w.file]
                     /\ io_ok' = (io_ok \/ w.ok)
                     /\ msgs' = <<IF w.ok THEN Information("Saved")
                                          ELSE Critical("Error")>>
                     /\ last' = Ev("save", IF w.ok THEN "ok" ELSE "fail",
                                   current_file', current_file = None, "none")
    /\ UNCHANGED <<platform, text, fmt, procs, pc>>

\* save_file that shows the dialog on every save ("save as").
SaveFileAlwaysPrompts ==
    /\ pc = "idle"
    /\ \E file_path \in Paths \cup {None} :
          IF file_path = None
          THEN /\ msgs' = <<>>
               /\ last' = Ev("save", "cancel", None, TRUE, "none")
               /\ UNCHANGED <<current_file, fs, io_ok>>
          ELSE /\ current_file' = file_path
               /\ \E w \in WriteText(current_file', text) :
                     /\ fs' = [fs EXCEPT ![current_file'] = w.file]
                     /\ io_ok' = (io_ok \/ w.ok)
                     /\ msgs' = <<IF w.ok THEN Information("Saved")
                                          ELSE Critical("Error")>>
                     /\ last' = Ev("save", IF w.ok THEN "ok" ELSE "fail",
                                   current_file', TRUE, "none")
    /\ UNCHANGED <<platform, text, fmt, procs, pc>>

\* save_file that remembers the chosen path only once the write succeeded.
SaveFileSetsOnSuccess ==
    /\ pc = "idle"
    /\ \E file_path \in (IF current_file = None THEN Paths \cup {None}
                                                ELSE {None}) :
          IF current_file = None /\ file_path = None
          THEN /\ msgs' = <<>>
               /\ last' = Ev("save", "cancel", None, TRUE, "none")
               /\ UNCHANGED <<current_file, fs, io_ok>>
          ELSE LET target == IF current_file = None THEN file_path
                                                    ELSE current_file
               IN  \E w \in WriteText(target, text) :
                     /\ current_file' = (IF w.ok THEN target ELSE current_file)
                     /\ fs' = [fs EXCEPT ![target] = w.file]
                     /\ io_ok' = (io_ok \/ w.ok)
                     /\ msgs' = <<IF w.ok THEN Information("Saved")
                                          ELSE Critical("Error")>>
                     /\ last' = Ev("save", IF w.ok THEN "ok" ELSE "fail",
                                   target, current_file = None, "none")
    /\ UNCHANGED <<platform, text, fmt, procs, pc>>

\* save_file: with no current file the dialog is shown, and a cancelled
\* dialog ends the handler; the chosen path becomes the current file; then
\* the buffer is written to the current file and the outcome shown.
SaveFile ==
    /\ pc = "idle"
    /\ \E file_path \in (IF current_file = None THEN Paths \cup {None}
                                                ELSE {None}) :
          IF current_file = None /\ file_path = None
          THEN /\ msgs' = <<>>
               /\ last' = Ev("save", "cancel", None, TRUE, "none")
               /\ UNCHANGED <<current_file, fs, io_ok>>
          ELSE /\ current_file' = (IF current_file = None THEN file_path
                                                          ELSE current_file)
               /\ \E w \in WriteText(current_file', text) :
                     /\ fs' = [fs EXCEPT ![current_file'] = w.file]
                     /\ io_ok' = (io_ok \/ w.ok)
                     /\ msgs' = <<IF w.ok THEN Information("Saved")
                                          ELSE Critical("Error")>>
                     /\ last' = Ev("save", IF w.ok THEN "ok" ELSE "fail",
                                   current_file', current_file = None, "none")
    /\ UNCHANGED <<platform, text, fmt, procs, pc>>

\* The terminal the platform's branch of open_cmd spawns in folder.
Terminal(folder) ==
    IF platform = "win32"
    THEN [kind |-> "terminal", argv |-> <<"start", "cmd">>, cwd |-> folder]
    ELSE IF platform = "darwin"
    THEN [kind |-> "terminal", argv |-> <<"open", "-a", "Terminal", folder>>,
          cwd |-> "inherited"]
    ELSE [kind |-> "terminal", argv |-> <<"x-terminal-emulator">>,
          cwd |-> folder]

\* open_cmd: Popen starts the terminal and returns, or raises.
OpenCmd ==
    /\ pc = "idle"
    /\ IF current_file = None
       THEN /\ msgs' = <<Information("Info")>>
            /\ last' = Ev("open_cmd", "nofile", None, FALSE, "none")
            /\ UNCHANGED procs
       ELSE \/ /\ BagCardinality(procs) < MaxProcs
               /\ procs' = procs (+) SetToBag({Terminal(Parent(current_file))})
               /\ msgs' = <<>>
               /\ last' = Ev("open_cmd", "ok", current_file, FALSE, "none")
            \/ /\ msgs' = <<Critical("Error")>>
               /\ last' = Ev("open_cmd", "fail", current_file, FALSE, "none")
               /\ UNCHANGED procs
    /\ UNCHANGED <<platform, text, fmt, current_file, fs, pc, io_ok>>

Compiler(path) ==
    [kind |-> "compiler", argv |-> <<"tectonic", path>>, cwd |-> Parent(path)]

\* compile_latex without the test for a current file: the call on None
\* raises and is reported as a failed compilation.
CompileLatexNoGuard ==
    /\ pc = "idle"
    /\ \/ /\ current_file # None
          /\ BagCardinality(procs) < MaxProcs
          /\ procs' = procs (+) SetToBag({Compiler(current_file)})
          /\ pc' = "compiling"
          /\ msgs' = <<>>
          /\ last' = Ev("compile", "running", current_file, FALSE, "none")
       \/ /\ msgs' = <<Critical("Error")>>
          /\ last' = Ev("compile", "fail", current_file, FALSE, "none")
          /\ UNCHANGED <<procs, pc>>
    /\ UNCHANGED <<platform, text, fmt, current_file, fs, io_ok>>

\* compile_latex that starts the compiler with Popen and does not wait.
CompileLatexPopen ==
    /\ pc = "idle"
    /\ IF current_file = None
       THEN /\ msgs' = <<Information("Info")>>
            /\ last' = Ev("compile", "nofile", None, FALSE, "none")
            /\ UNCHANGED <<procs, pc>>
       ELSE \/ /\ BagCardinality(procs) < MaxProcs
               /\ procs' = procs (+) SetToBag({Compiler(current_file)})
               /\ msgs' = <<Information("Success")>>
               /\ last' = Ev("compile", "ok", current_file, FALSE, "none")
               /\ UNCHANGED pc
            \/ /\ msgs' = <<Critical("Error")>>
               /\ last' = Ev("compile", "fail", current_file, FALSE, "none")
               /\ UNCHANGED <<procs, pc>>
    /\ UNCHANGED <<platform, text, fmt, current_file, fs, io_ok>>

\* compile_latex up to the wait inside subprocess.run: the compiler is
\* started and the interface thread waits for it, or starting it raises.
CompileLatex ==
    /\ pc = "idle"
    /\ IF current_file = None
       THEN /\ msgs' = <<Information("Info")>>
            /\ last' = Ev("compile", "nofile", None, FALSE, "none")
            /\ UNCHANGED <<procs, pc>>
       ELSE \/ /\ BagCardinality(procs) < MaxProcs
               /\ procs' = procs (+) SetToBag({Compiler(current_file)})
               /\ pc' = "compiling"
               /\ msgs' = <<>>
               /\ last' = Ev("compile", "running", current_file, FALSE, "none")
            \/ /\ msgs' = <<Critical("Error")>>
               /\ last' = Ev("compile", "fail", current_file, FALSE, "none")
               /\ UNCHANGED <<procs, pc>>
    /\ UNCHANGED <<platform, text, fmt, current_file, fs, io_ok>>

\* The rest of compile_latex with the exit status checked (check=True).
CompileReturnsChecksStatus ==
    /\ pc = "compiling"
    /\ \E p \in BagToSet(procs), status \in {"zero", "nonzero"} :
          /\ p.kind = "compiler"
          /\ procs' = procs (-) SetToBag({p})
          /\ last' = Ev("compile", "ok", current_file, FALSE, status)
          /\ msgs' = <<IF status = "zero" THEN Information("Success")
                                          ELSE Critical("Error")>>
    /\ pc' = "idle"
    /\ UNCHANGED <<platform, text, fmt, current_file, fs, io_ok>>

\* The rest of compile_latex: the compiler exits with some status,
\* subprocess.run returns and the message is shown.
CompileReturns ==
    /\ pc = "compiling"
    /\ \E p \in BagToSet(procs), status \in {"zero", "nonzero"} :
          /\ p.kind = "compiler"
          /\ procs' = procs (-) SetToBag({p})
          /\ last' = Ev("compile", "ok", current_file, FALSE, status)
    /\ pc' = "idle"
    /\ msgs' = <<Information("Success")>>
    /\ UNCHANGED <<platform, text, fmt, current_file, fs, io_ok>>

\* A terminal exits; nothing in the program waits for it or hears of it.
TerminalExits ==
    /\ \E p \in BagToSet(procs) :
          /\ p.kind = "terminal"
          /\ procs' = procs (-) SetToBag({p})
    /\ msgs' = <<>>
    /\ last' = Ev("terminal_exit", "ok", None, FALSE, "none")
    /\ UNCHANGED <<platform, text, fmt, current_file, fs, pc, io_ok>>

\* The Close button: the window closes and the event loop ends.
Close ==
    /\ pc = "idle"
    /\ pc' = "closed"
    /\ msgs' = <<>>
    /\ last' = Ev("close", "ok", None, FALSE, "none")
    /\ UNCHANGED <<platform, text, fmt, current_file, fs, procs, io_ok>>

Next ==
    \/ Rehighlight
    \/ Keystroke
    \/ InsertFromMimeData
    \/ OpenFile
    \/ SaveFile
    \/ OpenCmd
    \/ CompileLatex
    \/ CompileReturns
    \/ TerminalExits
    \/ Close

Spec == Init /\ [][Next]_vars

----------------------------------------------------------------------------
(* The highlighter on its own: a document of one line, highlighted once *)

\* The pieces the lines are made of: the two environment commands, a lone
\* backslash, the characters the patterns name, a letter, and a character
\* outside the BMP.
Fragments ==
    { <<BSL, "b", "e", "g", "i", "n">>, <<BSL, "e", "n", "d">>, <<BSL>>,
      <<"{">>, <<"}">>, <<"$">>, <<"%">>, <<"x">>, <<ASTRAL>> }

RECURSIVE Flatten(_)
Flatten(ss) == IF ss = <<>> THEN <<>> ELSE Head(ss) \o Flatten(Tail(ss))

HLLines == {Flatten(ss) : ss \in SeqsUpTo(Fragments, MaxFrags)}

\* The editor holding some line, before the highlighter's first pass.
InitHL ==
    /\ platform = "linux"
    /\ text \in HLLines
    /\ fmt = UnformattedDoc(text)
    /\ current_file = None
    /\ fs = [p \in Paths |-> NoFile]
    /\ procs = EmptyBag
    /\ pc = "starting"
    /\ msgs = <<>>
    /\ last = [op |-> "init", outcome |-> "ok", path |-> None,
               prompted |-> FALSE, exit |-> "none", follows_save |-> FALSE]
    /\ io_ok = FALSE

NextHL == Rehighlight

SpecHL == InitHL /\ [][NextHL]_vars

----------------------------------------------------------------------------
(* C6 *)

\* The rules that have a match covering the character at offset k of line.
Covering(line, k) ==
    {r \in 1..Len(highlighting_rules) :
        LET ms == finditer(highlighting_rules[r].pattern, line, 0)
        IN  \E j \in 1..Len(ms) : ms[j][1] <= k /\ k < ms[j][2]}

\* The format of the last rule, in list order, covering offset k.
ExpectedStyle(line, k) ==
    IF Covering(line, k) = {} THEN NoStyle
    ELSE highlighting_rules[CHOOSE r \in Covering(line, k) :
                               \A q \in Covering(line, k) : q <= r].format

\* Every UTF-16 unit of every character of line has, in f, the format of
\* the last rule covering the character.
LastRuleWinsOn(line, f) ==
    \A k \in 0..(Len(line) - 1) :
        \A u \in (U16Len(line, k) + 1)..U16Len(line, k + 1) :
            f[u] = ExpectedStyle(line, k)

\* C6: once a line has been highlighted, each of its characters has the
\* style of the last rule (Command, Brace, Inline math, Comment,
\* Environment) with a match covering it, and no style when none has.
HighlightLastRuleWins ==
    pc # "starting" =>
        \A b \in 1..Len(Blocks(text)) : LastRuleWinsOn(Blocks(text)[b], fmt[b])

\* The same, of the lines whose characters are all in the BMP.
HighlightLastRuleWinsInBMP ==
    pc # "starting" =>
        \A b \in 1..Len(Blocks(text)) :
            (\A i \in 1..Len(Blocks(text)[b]) : Blocks(text)[b][i] # ASTRAL)
                => LastRuleWinsOn(Blocks(text)[b], fmt[b])

\* A highlighted line "% $x$": the math span has the comment's style.
CommentOverMathHighlighted ==
    /\ pc # "starting"
    /\ text = <<"%", "$", "x", "$">>
    /\ fmt[1] = [u \in 1..4 |-> "comment_format"]

----------------------------------------------------------------------------
(* The claims about the editor, under Spec *)

CompilerAlive == \E p \in BagToSet(procs) : p.kind = "compiler"
TerminalAlive == \E p \in BagToSet(procs) : p.kind = "terminal"

\* C1: when open_file is given a path and reading it fails, the error is
\* shown and the buffer text and the current file are what they were.
OpenFailureChangesNothing ==
    [][(last'.op = "open" /\ last'.outcome = "fail")
          => /\ msgs' = <<Critical("Error")>>
             /\ text' = text
             /\ current_file' = current_file]_vars

\* A failed open of one path while another is the current file.
FailedOpenWithFileSet ==
    /\ last.op = "open"
    /\ last.outcome = "fail"
    /\ current_file \in Paths
    /\ last.path \in Paths \ {current_file}
    /\ msgs = <<Critical("Error")>>

\* C2: a save with no current file whose dialog is cancelled writes
\* nothing, shows nothing and leaves the current file unset, so that the
\* next save shows the dialog again.
CancelledSaveDoesNothing ==
    [][/\ (last'.op = "save" /\ last'.outcome = "cancel")
            => /\ current_file = None
               /\ current_file' = None
               /\ fs' = fs
               /\ msgs' = <<>>
               /\ text' = text
       /\ (last'.op = "save" /\ current_file = None) => last'.prompted]_vars

\* A cancelled save.
SaveCancelled ==
    /\ last.op = "save"
    /\ last.outcome = "cancel"
    /\ current_file = None
    /\ msgs = <<>>

\* C3: no step taken while the current file is unset spawns a child
\* process; open_cmd and compile_latex then show the information box and
\* change nothing else.
NoSpawnWithoutFile ==
    [][current_file = None
          => /\ procs' = procs
             /\ procs = EmptyBag
             /\ last'.op \in {"open_cmd", "compile"}
                   => /\ last'.outcome = "nofile"
                      /\ msgs' = <<Information("Info")>>
                      /\ text' = text
                      /\ current_file' = None
                      /\ fs' = fs
                      /\ pc' = pc]_vars

\* Open CMD pressed with no current file.
OpenCmdWithoutFile ==
    /\ last.op = "open_cmd"
    /\ last.outcome = "nofile"
    /\ current_file = None
    /\ procs = EmptyBag
    /\ msgs = <<Information("Info")>>

\* C4: a compile with a current file, once over, has shown exactly one
\* message: the success message if the compiler was started, whatever its
\* exit status, and the failure message if it could not be started.
CompileMessageFollowsStart ==
    (last.op = "compile" /\ last.outcome # "nofile" /\ pc = "idle")
        => /\ last.outcome \in {"ok", "fail"}
           /\ Len(msgs) = 1
           /\ msgs[1] = Information("Success") <=> last.outcome = "ok"
           /\ msgs[1] = Critical("Error") <=> last.outcome = "fail"
           /\ last.outcome = "ok" <=> last.exit \in {"zero", "nonzero"}

\* The success message after a compiler that exited with a non-zero status.
SuccessShownAfterFailedCompiler ==
    /\ last.op = "compile"
    /\ last.exit = "nonzero"
    /\ pc = "idle"
    /\ msgs = <<Information("Success")>>

\* C5: the current file starts unset; it changes only to the path of a
\* successful open or to the path chosen in save's dialog; once set it is
\* never unset; save shows the dialog exactly when the current file is
\* unset, and with a current file it writes the buffer to that file.
CurrentFileLifecycle ==
    /\ current_file = None
    /\ [][/\ current_file' # current_file
               => \/ last'.op = "open" /\ last'.outcome = "ok"
                  \/ last'.op = "save" /\ last'.prompted
                        /\ last'.outcome # "cancel"
          /\ (last'.op = "open" /\ last'.outcome = "ok")
               => current_file' = last'.path
          /\ (last'.op = "save" /\ last'.outcome # "cancel")
               => current_file' = last'.path
          /\ current_file # None => current_file' # None
          /\ last'.op = "save"
               => /\ last'.prompted <=> current_file = None
                  /\ current_file # None
                        => /\ last'.outcome \in {"ok", "fail"}
                           /\ current_file' = current_file
                           /\ last'.path = current_file
                           /\ \A p \in Paths \ {current_file} : fs'[p] = fs[p]
                  /\ last'.outcome = "ok"
                        => fs'[current_file'] = File(Encode(text, platform))
         ]_vars

\* A save that wrote the buffer to the current file without a dialog.
SavedWithoutPrompt ==
    /\ last.op = "save"
    /\ ~last.prompted
    /\ last.outcome = "ok"
    /\ current_file \in Paths
    /\ fs[current_file] = File(Encode(text, platform))

\* C7: an open of the path the step before has saved the buffer to, when
\* it succeeds, leaves the buffer text what it was saved as, and that path
\* the current file.
SaveThenOpenRoundTrip ==
    [][(last'.op = "open" /\ last'.outcome = "ok" /\ last'.follows_save)
          => /\ text' = text
             /\ current_file' = last.path
             /\ current_file' = current_file]_vars

\* A line feed saved on Windows and read back.
LineFeedRoundTripOnWindows ==
    /\ last.op = "open"
    /\ last.outcome = "ok"
    /\ last.follows_save
    /\ platform = "win32"
    /\ text = <<LF>>
    /\ fs[current_file] = File(<<CR, LF>>)

\* C8: the buffer text changes only in a keystroke, a paste or a
\* successful open.
OnlyEditingAndOpenChangeText ==
    [][text' # text
          => \/ last'.op \in {"edit", "paste"}
             \/ last'.op = "open" /\ last'.outcome = "ok"]_vars

\* An edited buffer after a save that failed.
EditedBufferAfterFailedSave ==
    /\ last.op = "save"
    /\ last.outcome = "fail"
    /\ text = <<LF>>
    /\ fs[current_file] # File(Encode(text, platform))

\* C9: while the compiler runs the interface thread waits in
\* compile_latex: no message is shown, and the only steps are child
\* processes exiting, the compiler's exit ending the wait; open_cmd leaves
\* the interface idle whether or not its terminal is running.
CompileBlocksTerminalDoesNot ==
    [][/\ CompilerAlive' => (pc' = "compiling" /\ msgs' = <<>>)
       /\ pc = "compiling"
            => /\ CompilerAlive
               /\ \/ last'.op = "terminal_exit" /\ pc' = "compiling"
                  \/ /\ last'.op = "compile"
                     /\ last'.outcome = "ok"
                     /\ ~CompilerAlive'
                     /\ pc' = "idle"
               /\ text' = text
               /\ current_file' = current_file
               /\ fs' = fs
       /\ last'.op = "open_cmd" => (pc' = "idle" /\ pc = "idle")]_vars

\* A compile run from start to end while a terminal opened before it is
\* still alive.
CompiledWhileTerminalAlive ==
    /\ TerminalAlive
    /\ ~CompilerAlive
    /\ last.op = "compile"
    /\ last.outcome = "ok"
    /\ pc = "idle"
    /\ msgs = <<Information("Success")>>

\* C10: a save that shows the dialog, gets a path and fails to write shows
\* the error and leaves that path the current file; from then on, with
\* nothing ever read or written, save writes to it without a dialog and
\* open_cmd and compile_latex run on it.
FailedFirstSaveKeepsPath ==
    [][/\ (last'.op = "save" /\ last'.prompted /\ last'.outcome = "fail")
            => /\ last'.path \in Paths
               /\ current_file' = last'.path
               /\ msgs' = <<Critical("Error")>>
       /\ (~io_ok /\ current_file # None /\ last'.op = "save")
            => /\ ~last'.prompted
               /\ last'.path = current_file
       /\ (~io_ok /\ current_file # None
              /\ last'.op \in {"open_cmd", "compile"})
            => /\ last'.outcome # "nofile"
               /\ last'.path = current_file
               /\ \A p \in BagToSet(procs') :
                     CopiesIn(p, procs') > CopiesIn(p, procs)
                        => p \in {Terminal(Parent(current_file)),
                                  Compiler(current_file)}]_vars

\* The compiler running on a path that was chosen for a save that failed,
\* with no file ever read or written.
CompilingNeverSavedPath ==
    /\ ~io_ok
    /\ current_file \in Paths
    /\ BagIn(Compiler(current_file), procs)
    /\ pc = "compiling"

====
